---- MODULE Spec2Model ----
(***************************************************************************)
(* URL shortener (src/src/index.ts): five HTTP handlers over one MongoDB   *)
(* collection, urlCollection.  The collection is a sequence of documents   *)
(* in insertion (natural) order; findOne, updateOne and deleteOne act on   *)
(* the first document that matches the filter.  Every handler performs one *)
(* store operation and is one atomic step, except the redirect handler,    *)
(* which awaits findOne and then updateOne: two steps, between which other *)
(* requests may run.                                                       *)
(***************************************************************************)
EXTENDS Integers, Sequences, FiniteSets, Bags, TLC

\* ------------------------------------------------------------------ bounds
\* Number of distinct outcomes of the six Math.random() calls of one create.
NumDraws == 2
\* Number of documents ever inserted (values of _id handed out).
MaxIds == 2
\* Largest value a clicks counter reaches.
MaxClicks == 2
\* Largest reading of the clock (new Date()); readings are 0 .. MaxTime.
MaxTime == 1
\* Number of redirect requests that may be in flight at once.
NumReq == 2
\* Math.random() yields n / RandDenom for n in 0 .. RandDenom - 1.
RandDenom == 1000

\* --------------------------------------------------------------- constants
\* generateShortCode(length = 6)
DefaultLength == 6

\* const chars = "abc...XYZ0123456789"
chars ==
  << "a", "b", "c", "d", "e", "f", "g", "h", "i", "j", "k", "l", "m",
     "n", "o", "p", "q", "r", "s", "t", "u", "v", "w", "x", "y", "z",
     "A", "B", "C", "D", "E", "F", "G", "H", "I", "J", "K", "L", "M",
     "N", "O", "P", "Q", "R", "S", "T", "U", "V", "W", "X", "Y", "Z",
     "0", "1", "2", "3", "4", "5", "6", "7", "8", "9" >>

\* ------------------------------------------------------------------ inputs
\* The destinations requests carry.
Urls == {"https://a.example", "https://b.example"}

\* The request bodies of POST and PUT.  kind "invalid": the text is not JSON
\* (an empty body, say); kind "null": the JSON value null; kind "object": a
\* JSON value that can be destructured, with the url field absent (has FALSE,
\* as in {} or 42), empty, or a string.
Bodies ==
  {[kind |-> "invalid", has |-> FALSE, url |-> ""],
   [kind |-> "null", has |-> FALSE, url |-> ""],
   [kind |-> "object", has |-> FALSE, url |-> ""],
   [kind |-> "object", has |-> TRUE, url |-> ""]}
    \cup {[kind |-> "object", has |-> TRUE, url |-> u] : u \in Urls}

\* The readings new Date() may give.  The wall clock is read before insertOne
\* is awaited: two creates may read the same value, and the later reading may
\* be stored first, so a create's reading is any of these.
Times == 0 .. MaxTime

\* The k-th outcome of the random source: six values n / RandDenom, as their
\* numerators.  Outcome 1 starts at 0 (the smallest value of Math.random()),
\* the last position of outcome 2 is RandDenom - 1 (the largest).
RandomOutcome(k) ==
  [i \in 1 .. DefaultLength |->
     IF k = 1 THEN ((i - 1) * 379) % RandDenom
     ELSE (RandDenom - 1 + (DefaultLength - i) * (k * 211)) % RandDenom]

\* ------------------------------------------------------- generateShortCode
\* chars.charAt(idx): idx counts from 0.
charAt(s, idx) == s[idx + 1]

\* Math.floor(Math.random() * chars.length) for the random value n / RandDenom.
RandomIndex(n, len) == (n * len) \div RandDenom

\* The loop below, had it stopped one character early (i < length - 1).
RECURSIVE GenLoopShort(_, _, _, _)
GenLoopShort(i, length, result, rnd) ==
  IF i < length - 1
  THEN GenLoopShort(i + 1, length,
                    Append(result, charAt(chars, RandomIndex(rnd[i + 1], Len(chars)))),
                    rnd)
  ELSE result

\* for (let i = 0; i < length; i++) result += chars.charAt(...)
RECURSIVE GenLoop(_, _, _, _)
GenLoop(i, length, result, rnd) ==
  IF i < length
  THEN GenLoop(i + 1, length,
               Append(result, charAt(chars, RandomIndex(rnd[i + 1], Len(chars)))),
               rnd)
  ELSE result

generateShortCode(rnd) == GenLoop(0, DefaultLength, <<>>, rnd)

\* generateShortCode() under the k-th outcome of the random source.
Generated == [k \in 1 .. NumDraws |-> generateShortCode(RandomOutcome(k))]

\* The codes create can produce here, which are also the codes requests name.
Codes == {Generated[k] : k \in 1 .. NumDraws}

\* ------------------------------------------------------------- the store
\* findOne's null.
Null == [_id |-> 0, shortCode |-> <<>>, url |-> "", clicks |-> 0, createdAt |-> 0]

\* await c.req.json() rejects (SyntaxError) when the body is not JSON.
JsonRejects(body) == body.kind = "invalid"

\* const { url } = <value> throws (TypeError) when the value is null.
DestructureThrows(body) == body.kind = "null"

\* Line 36 / 66 throws; nothing catches it and hono answers 500.
Throws(body) == JsonRejects(body) \/ DestructureThrows(body)

\* hono's answer to an uncaught throw of a handler working on coll.
ServerError(coll) == [coll |-> coll, status |-> 500, body |-> "Internal Server Error"]

\* !url
Not(body) == ~body.has \/ body.url = ""

\* Index of the first document of coll with the given shortCode, 0 if none.
FirstMatch(coll, shortCode) ==
  IF \E i \in 1 .. Len(coll) : coll[i].shortCode = shortCode
  THEN CHOOSE i \in 1 .. Len(coll) :
         /\ coll[i].shortCode = shortCode
         /\ \A j \in 1 .. i - 1 : coll[j].shortCode # shortCode
  ELSE 0

\* urlCollection.findOne({ shortCode })
findOne(coll, shortCode) ==
  IF FirstMatch(coll, shortCode) = 0 THEN Null ELSE coll[FirstMatch(coll, shortCode)]

\* coll without its i-th document.
RemoveAt(coll, i) == SubSeq(coll, 1, i - 1) \o SubSeq(coll, i + 1, Len(coll))

\* const newMapping: UrlMapping = { shortCode, url, clicks: 0, createdAt: new Date() }
NewMapping(oid, shortCode, url, date) ==
  [_id |-> oid, shortCode |-> shortCode, url |-> url, clicks |-> 0,
   createdAt |-> date]

\* urlCollection.insertOne(newMapping)
insertOne(coll, doc) == Append(coll, doc)

\* The increment below, had it written back the value read by findOne
\* ({ $set: { clicks: mapping.clicks + 1 } }).
IncFromMapping(coll, shortCode, mapping) ==
  LET i == FirstMatch(coll, shortCode) IN
  IF i = 0 THEN [coll |-> coll, matchedCount |-> 0]
  ELSE [coll |-> [coll EXCEPT ![i].clicks = mapping.clicks + 1], matchedCount |-> 1]

\* urlCollection.updateOne({ shortCode }, { $inc: { clicks: 1 } }), called by
\* the redirect handler with mapping in scope.
IncClicks(coll, shortCode, mapping) ==
  LET i == FirstMatch(coll, shortCode) IN
  IF i = 0 THEN [coll |-> coll, matchedCount |-> 0]
  ELSE [coll |-> [coll EXCEPT ![i].clicks = @ + 1], matchedCount |-> 1]

\* The update below, had it been updateMany.
SetUrlMany(coll, shortCode, url) ==
  [coll |-> [i \in 1 .. Len(coll) |->
               IF coll[i].shortCode = shortCode
               THEN [coll[i] EXCEPT !.url = url] ELSE coll[i]],
   matchedCount |-> Cardinality({i \in 1 .. Len(coll) : coll[i].shortCode = shortCode})]

\* The update below, had it passed { upsert: true }.
SetUrlUpsert(coll, shortCode, url) ==
  LET i == FirstMatch(coll, shortCode) IN
  IF i = 0
  THEN [coll |-> Append(coll, [Null EXCEPT !.shortCode = shortCode, !.url = url]),
        matchedCount |-> 0]
  ELSE [coll |-> [coll EXCEPT ![i].url = url], matchedCount |-> 1]

\* The update below, had it been { $set: { url, clicks: 0 } }.
SetUrlResetClicks(coll, shortCode, url) ==
  LET i == FirstMatch(coll, shortCode) IN
  IF i = 0 THEN [coll |-> coll, matchedCount |-> 0]
  ELSE [coll |-> [coll EXCEPT ![i].url = url, ![i].clicks = 0], matchedCount |-> 1]

\* urlCollection.updateOne({ shortCode }, { $set: { url } })
SetUrl(coll, shortCode, url) ==
  LET i == FirstMatch(coll, shortCode) IN
  IF i = 0 THEN [coll |-> coll, matchedCount |-> 0]
  ELSE [coll |-> [coll EXCEPT ![i].url = url], matchedCount |-> 1]

\* urlCollection.deleteOne({ shortCode })
deleteOne(coll, shortCode) ==
  LET i == FirstMatch(coll, shortCode) IN
  IF i = 0 THEN [coll |-> coll, deletedCount |-> 0]
  ELSE [coll |-> RemoveAt(coll, i), deletedCount |-> 1]

\* The body below, had it counted the stats request itself as a click.
StatsBodyBumped(mapping) ==
  [shortCode |-> mapping.shortCode, url |-> mapping.url,
   clicks |-> mapping.clicks + 1, createdAt |-> mapping.createdAt]

\* The body of the stats response built from mapping.
StatsBody(mapping) ==
  [shortCode |-> mapping.shortCode, url |-> mapping.url,
   clicks |-> mapping.clicks, createdAt |-> mapping.createdAt]

\* ---------------------------------------------------------------- handlers
\* Each handler as a function of the collection and the request: the collection
\* it leaves, the status and the body it answers.

\* app.post("/api/v1/shorten"): oid is the _id insertOne assigns, k the
\* outcome of the random source, date the value of new Date().
PostShorten(coll, oid, body, k, date) ==
  IF Throws(body) THEN ServerError(coll)
  ELSE IF Not(body)
  THEN [coll |-> coll, status |-> 400,
        body |-> [error |-> "El campo \"url\" es obligatorio."]]
  ELSE LET shortCode == Generated[k]
           newMapping == NewMapping(oid, shortCode, body.url, date)
       IN  [coll |-> insertOne(coll, newMapping), status |-> 200,
            body |-> [shortCode |-> shortCode, url |-> body.url]]

\* app.get("/api/v1/shorten/:shortCode") after its findOne: the 404 answer when
\* mapping is null (status 0: the handler goes on to updateOne).
GetShortCodeLookup(coll, shortCode) ==
  LET mapping == findOne(coll, shortCode) IN
  IF mapping = Null
  THEN [mapping |-> mapping, status |-> 404, body |-> "Código corto no encontrado"]
  ELSE [mapping |-> mapping, status |-> 0, body |-> ""]

\* app.get("/api/v1/shorten/:shortCode") from updateOne on: the redirect.
GetShortCodeFinish(coll, shortCode, mapping) ==
  [coll |-> IncClicks(coll, shortCode, mapping).coll, status |-> 302,
   body |-> mapping.url]

\* app.put("/api/v1/shorten/:shortCode")
PutShortCode(coll, shortCode, body) ==
  IF Throws(body) THEN ServerError(coll)
  ELSE IF Not(body)
  THEN [coll |-> coll, status |-> 400,
        body |-> [error |-> "El campo \"url\" es obligatorio."]]
  ELSE LET result == SetUrl(coll, shortCode, body.url) IN
       IF result.matchedCount = 0
       THEN [coll |-> result.coll, status |-> 404,
             body |-> [error |-> "Código corto no encontrado."]]
       ELSE [coll |-> result.coll, status |-> 200,
             body |-> [message |-> "URL actualizada correctamente."]]

\* app.delete("/api/v1/shorten/:shortCode")
DeleteShortCode(coll, shortCode) ==
  LET result == deleteOne(coll, shortCode) IN
  IF result.deletedCount = 0
  THEN [coll |-> result.coll, status |-> 404,
        body |-> [error |-> "Código corto no encontrado."]]
  ELSE [coll |-> result.coll, status |-> 200,
        body |-> [message |-> "URL eliminada correctamente."]]

\* app.get("/api/v1/shorten/:shortCode/stats")
GetStats(coll, shortCode) ==
  LET mapping == findOne(coll, shortCode) IN
  IF mapping = Null
  THEN [coll |-> coll, status |-> 404,
        body |-> [error |-> "Código corto no encontrado."]]
  ELSE [coll |-> coll, status |-> 200, body |-> StatsBody(mapping)]

\* ------------------------------------------------------------------- state
VARIABLES
  urlCollection,  \* the documents of db.collection("urls"), in natural order
  nextId,         \* the _id of the next document stored (_id names a document;
                  \* the ids are numbered in the order the inserts are applied)
  inflight,       \* the redirect requests between findOne and updateOne (a bag)
  last,           \* the last handler step: operation, path code, status
  fresh,          \* per code: sequential redirects since the create that returned it
  sole            \* per code: redirects completed while one record alone held it

hist == <<fresh, sole>>
vars == <<urlCollection, nextId, inflight, last, fresh, sole>>

\* A redirect request between its two store operations.
Pending(shortCode, mapping) == [shortCode |-> shortCode, mapping |-> mapping]

\* Whether a redirect for shortCode is between its findOne and its updateOne.
InFlight(shortCode) == \E p \in BagToSet(inflight) : p.shortCode = shortCode

\* What last records of a handler step (status 0: no answer sent yet).
Step(op, shortCode, status) == [op |-> op, shortCode |-> shortCode, status |-> status]

Init ==
  /\ urlCollection = <<>>
  /\ nextId = 1
  /\ inflight = EmptyBag
  /\ last = Step("none", <<>>, 0)
  /\ fresh = [c \in Codes |-> -1]
  /\ sole = [c \in Codes |-> -1]

\* ----------------------------------------------------------------- actions
\* POST /api/v1/shorten
Create(body, k, date) ==
  LET answer == PostShorten(urlCollection, nextId, body, k, date)
  IN  /\ answer.status = 200 => nextId <= MaxIds
      /\ urlCollection' = answer.coll
      /\ nextId' = IF answer.status = 200 THEN nextId + 1 ELSE nextId
      /\ last' = Step("create", <<>>, answer.status)
      /\ UNCHANGED inflight

\* GET /api/v1/shorten/:shortCode, up to the await of findOne
RedirectLookup(shortCode) ==
  LET answer == GetShortCodeLookup(urlCollection, shortCode) IN
  /\ answer.status # 404 => BagCardinality(inflight) < NumReq
  /\ inflight' = IF answer.status = 404 THEN inflight
                 ELSE inflight (+) SetToBag({Pending(shortCode, answer.mapping)})
  /\ last' = Step("redirect", shortCode, answer.status)
  /\ UNCHANGED <<urlCollection, nextId>>

\* GET /api/v1/shorten/:shortCode, from updateOne to the response
RedirectIncrement(p) ==
  LET answer == GetShortCodeFinish(urlCollection, p.shortCode, p.mapping) IN
  /\ BagIn(p, inflight)
  /\ \A i \in 1 .. Len(answer.coll) : answer.coll[i].clicks <= MaxClicks
  /\ urlCollection' = answer.coll
  /\ inflight' = inflight (-) SetToBag({p})
  /\ last' = Step("redirect", p.shortCode, answer.status)
  /\ UNCHANGED nextId

\* PUT /api/v1/shorten/:shortCode
Update(shortCode, body) ==
  LET answer == PutShortCode(urlCollection, shortCode, body) IN
  /\ urlCollection' = answer.coll
  /\ last' = Step("update", shortCode, answer.status)
  /\ UNCHANGED <<nextId, inflight>>

\* DELETE /api/v1/shorten/:shortCode
Delete(shortCode) ==
  LET answer == DeleteShortCode(urlCollection, shortCode) IN
  /\ urlCollection' = answer.coll
  /\ last' = Step("delete", shortCode, answer.status)
  /\ UNCHANGED <<nextId, inflight>>

\* GET /api/v1/shorten/:shortCode/stats
Stats(shortCode) ==
  LET answer == GetStats(urlCollection, shortCode) IN
  /\ urlCollection' = answer.coll
  /\ last' = Step("stats", shortCode, answer.status)
  /\ UNCHANGED <<nextId, inflight>>

\* --------------------------------------------------------------- history
\* fresh[c] = k >= 0: a create returned c and k redirects for c have since run
\* one after the other, no other request naming c in between (a stats request
\* aside); -1 otherwise.
\* sole[c] = n >= 0: since the create that made c the code of one record alone,
\* with no redirect for c pending at that time, that record has not been
\* deleted, no create has returned c again, and n redirects for c have
\* completed; -1 otherwise.
HistCreate(body, k) ==
  LET shortCode == Generated[k] IN
  IF Throws(body) \/ Not(body) THEN UNCHANGED hist
  ELSE /\ fresh' = [fresh EXCEPT ![shortCode] = IF InFlight(shortCode) THEN -1 ELSE 0]
       /\ sole' = [sole EXCEPT ![shortCode] =
                     IF FirstMatch(urlCollection, shortCode) = 0 /\ ~InFlight(shortCode)
                     THEN 0 ELSE -1]

HistLookup(shortCode) ==
  /\ fresh' = [fresh EXCEPT ![shortCode] = IF InFlight(shortCode) THEN -1 ELSE @]
  /\ UNCHANGED sole

HistIncrement(p) ==
  /\ fresh' = [fresh EXCEPT ![p.shortCode] = IF @ >= 0 THEN @ + 1 ELSE @]
  /\ sole' = [sole EXCEPT ![p.shortCode] = IF @ >= 0 THEN @ + 1 ELSE @]

HistUpdate(shortCode) ==
  /\ fresh' = [fresh EXCEPT ![shortCode] = -1]
  /\ UNCHANGED sole

HistDelete(shortCode) ==
  /\ fresh' = [fresh EXCEPT ![shortCode] = -1]
  /\ sole' = [sole EXCEPT ![shortCode] = -1]

\* ---------------------------------------------------------- specifications
\* Spec: the handlers, any interleaving; the history variables are not kept.
Next ==
  \/ \E body \in Bodies, k \in 1 .. NumDraws, date \in Times :
       Create(body, k, date) /\ UNCHANGED hist
  \/ \E shortCode \in Codes : RedirectLookup(shortCode) /\ UNCHANGED hist
  \/ \E p \in BagToSet(inflight) : RedirectIncrement(p) /\ UNCHANGED hist
  \/ \E shortCode \in Codes, body \in Bodies : Update(shortCode, body) /\ UNCHANGED hist
  \/ \E shortCode \in Codes : Delete(shortCode) /\ UNCHANGED hist
  \/ \E shortCode \in Codes : Stats(shortCode) /\ UNCHANGED hist

Spec == Init /\ [][Next]_vars

\* SpecHistory: the same handlers, with the history variables kept.
NextHistory ==
  \/ \E body \in Bodies, k \in 1 .. NumDraws, date \in Times :
       Create(body, k, date) /\ HistCreate(body, k)
  \/ \E shortCode \in Codes : RedirectLookup(shortCode) /\ HistLookup(shortCode)
  \/ \E p \in BagToSet(inflight) : RedirectIncrement(p) /\ HistIncrement(p)
  \/ \E shortCode \in Codes, body \in Bodies :
       Update(shortCode, body) /\ HistUpdate(shortCode)
  \/ \E shortCode \in Codes : Delete(shortCode) /\ HistDelete(shortCode)
  \/ \E shortCode \in Codes : Stats(shortCode) /\ UNCHANGED hist

SpecHistory == Init /\ [][NextHistory]_vars

\* ------------------------------------------------------------------ claims
\* The 62 letters and digits.
Alphanumeric ==
  {"a", "b", "c", "d", "e", "f", "g", "h", "i", "j", "k", "l", "m", "n", "o",
   "p", "q", "r", "s", "t", "u", "v", "w", "x", "y", "z"}
    \cup {"A", "B", "C", "D", "E", "F", "G", "H", "I", "J", "K", "L", "M", "N",
          "O", "P", "Q", "R", "S", "T", "U", "V", "W", "X", "Y", "Z"}
    \cup {"0", "1", "2", "3", "4", "5", "6", "7", "8", "9"}

\* The body carries a url field that is not empty.
NonEmpty(body) == body.kind = "object" /\ body.has /\ body.url # ""

\* The body is a JSON value whose url field is missing or empty.
UrlMissingOrEmpty(body) == body.kind # "invalid" /\ ~NonEmpty(body)

\* The positions of coll that hold a document with the given code.
Holders(coll, shortCode) == {i \in 1 .. Len(coll) : coll[i].shortCode = shortCode}

\* C1: a create request with a non-empty url answers 200, appends exactly one
\* record (url as given, clicks 0, a shortCode of 6 characters of the 62
\* alphanumeric ones), answers that shortCode and that url, and leaves every
\* record already stored as it was.
C1_CreateAddsOneRecord ==
  [][last'.op = "create" =>
     \A body \in {b \in Bodies : NonEmpty(b)}, k \in 1 .. NumDraws, date \in Times :
       Create(body, k, date) =>
         LET answer == PostShorten(urlCollection, nextId, body, k, date)
             n == Len(urlCollection)
         IN  /\ answer.status = 200
             /\ Len(urlCollection') = n + 1
             /\ SubSeq(urlCollection', 1, n) = urlCollection
             /\ urlCollection'[n + 1].url = body.url
             /\ urlCollection'[n + 1].clicks = 0
             /\ Len(urlCollection'[n + 1].shortCode) = 6
             /\ \A j \in 1 .. Len(urlCollection'[n + 1].shortCode) :
                  urlCollection'[n + 1].shortCode[j] \in Alphanumeric
             /\ Cardinality(Alphanumeric) = 62
             /\ answer.body = [shortCode |-> urlCollection'[n + 1].shortCode,
                               url |-> body.url]
    ]_vars

\* A create has just answered 200 and stored a second record beside an older one.
C1_Witness ==
  /\ last.op = "create" /\ last.status = 200
  /\ Len(urlCollection) >= 2
  /\ urlCollection[Len(urlCollection)].clicks = 0

\* C4: an update request with a non-empty url for a code held by a stored
\* record answers 200 and replaces the url of one record holding that code, the
\* first in store order; the record's other fields and all other records stay.
C4_UpdateReplacesUrlOnly ==
  [][\A shortCode \in Codes, body \in Bodies :
       (/\ last'.op = "update" /\ last'.shortCode = shortCode
        /\ NonEmpty(body)
        /\ Holders(urlCollection, shortCode) # {}
        /\ Update(shortCode, body)) =>
         /\ PutShortCode(urlCollection, shortCode, body).status = 200
         /\ \E i \in Holders(urlCollection, shortCode) :
              /\ \A j \in Holders(urlCollection, shortCode) : i <= j
              /\ Len(urlCollection') = Len(urlCollection)
              /\ \A j \in 1 .. Len(urlCollection) :
                   IF j = i
                   THEN /\ urlCollection'[j].url = body.url
                        /\ urlCollection'[j].shortCode = urlCollection[j].shortCode
                        /\ urlCollection'[j].clicks = urlCollection[j].clicks
                        /\ urlCollection'[j].createdAt = urlCollection[j].createdAt
                        /\ urlCollection'[j]._id = urlCollection[j]._id
                   ELSE urlCollection'[j] = urlCollection[j]
    ]_vars

\* An update has just answered 200 for a code whose record has been clicked.
C4_Witness ==
  /\ last.op = "update" /\ last.status = 200
  /\ \E i \in Holders(urlCollection, last.shortCode) :
       /\ urlCollection[i].clicks > 0
       /\ \A j \in Holders(urlCollection, last.shortCode) : i <= j

\* C5 as claimed: a create or update request whose url field is missing or
\* empty answers 400 and leaves the store as it was, whether or not the
\* update's code is stored.
C5_MissingUrlIs400 ==
  [][\A body \in Bodies :
       UrlMissingOrEmpty(body) =>
         /\ \A k \in 1 .. NumDraws, date \in Times :
              (last'.op = "create" /\ Create(body, k, date)) =>
                /\ PostShorten(urlCollection, nextId, body, k, date).status = 400
                /\ urlCollection' = urlCollection
         /\ \A shortCode \in Codes :
              (last'.op = "update" /\ Update(shortCode, body)) =>
                /\ PutShortCode(urlCollection, shortCode, body).status = 400
                /\ urlCollection' = urlCollection
    ]_vars

\* C6: for a code no stored record holds, redirect, update with a non-empty
\* url, delete and stats each answer 404 and leave the store as it was; the
\* redirect goes on to no increment.
C6_UnknownCodeIs404 ==
  [][\A shortCode \in Codes :
       (Holders(urlCollection, shortCode) = {} /\ last'.shortCode = shortCode) =>
         /\ RedirectLookup(shortCode) =>
              /\ GetShortCodeLookup(urlCollection, shortCode).status = 404
              /\ urlCollection' = urlCollection
              /\ inflight' = inflight
         /\ \A body \in Bodies :
              (NonEmpty(body) /\ Update(shortCode, body)) =>
                /\ PutShortCode(urlCollection, shortCode, body).status = 404
                /\ urlCollection' = urlCollection
         /\ Delete(shortCode) =>
              /\ DeleteShortCode(urlCollection, shortCode).status = 404
              /\ urlCollection' = urlCollection
         /\ Stats(shortCode) =>
              /\ GetStats(urlCollection, shortCode).status = 404
              /\ urlCollection' = urlCollection
    ]_vars

\* An update has just answered 404 while other records are stored.
C6_Witness ==
  /\ last.op = "update" /\ last.status = 404
  /\ Holders(urlCollection, last.shortCode) = {}
  /\ urlCollection # <<>>

\* C7: a stats request for a code a stored record holds answers 200 with
\* exactly the shortCode, url, clicks and createdAt of the first record holding
\* it, and leaves the store as it was.
C7_StatsReportsStored ==
  [][\A shortCode \in Codes :
       (/\ last'.op = "stats" /\ last'.shortCode = shortCode
        /\ Holders(urlCollection, shortCode) # {}
        /\ Stats(shortCode)) =>
         /\ GetStats(urlCollection, shortCode).status = 200
         /\ \E i \in Holders(urlCollection, shortCode) :
              /\ \A j \in Holders(urlCollection, shortCode) : i <= j
              /\ GetStats(urlCollection, shortCode).body =
                   [shortCode |-> urlCollection[i].shortCode,
                    url |-> urlCollection[i].url,
                    clicks |-> urlCollection[i].clicks,
                    createdAt |-> urlCollection[i].createdAt]
         /\ urlCollection' = urlCollection
    ]_vars

\* A stats request has just answered 200 for a record that has been clicked.
C7_Witness ==
  /\ last.op = "stats" /\ last.status = 200
  /\ \E i \in Holders(urlCollection, last.shortCode) : urlCollection[i].clicks > 0

\* C9: while one record alone holds a code, is not deleted and the code is not
\* created again, every completed redirect for the code has added 1 to the
\* record's clicks, however the redirects' lookups and increments interleave
\* with each other and with update and stats requests: clicks = completed.
C9_NoLostIncrement ==
  \A shortCode \in Codes :
    sole[shortCode] >= 0 =>
      /\ Cardinality(Holders(urlCollection, shortCode)) = 1
      /\ \A i \in Holders(urlCollection, shortCode) :
           urlCollection[i].clicks = sole[shortCode]

\* Two redirects have completed while a third, which read clicks = 0 before
\* either increment, is still between its lookup and its increment.
C9_Witness ==
  \E p \in BagToSet(inflight) :
    /\ sole[p.shortCode] = 2
    /\ p.mapping.clicks = 0

\* The _id values of the documents of coll.
Ids(coll) == {coll[i]._id : i \in 1 .. Len(coll)}

\* The document of coll with the given _id.
ById(coll, oid) == coll[CHOOSE i \in 1 .. Len(coll) : coll[i]._id = oid]

\* The records of the step's first state that its second state lacks or holds
\* with another value.
Touched == {oid \in Ids(urlCollection) :
              oid \notin Ids(urlCollection')
              \/ ById(urlCollection', oid) # ById(urlCollection, oid)}

\* C10: a step changes or removes at most one record and adds at most one, not
\* both; a redirect, update or delete changes or removes only a record holding
\* the requested code; a record that stays keeps its createdAt and its clicks
\* do not decrease.
C10_OneRecordPerRequest ==
  [][/\ Cardinality(Touched) + Cardinality(Ids(urlCollection') \ Ids(urlCollection)) <= 1
     /\ last'.op \in {"redirect", "update", "delete"} =>
          \A oid \in Touched : ById(urlCollection, oid).shortCode = last'.shortCode
     /\ last'.op \in {"create", "stats"} => Touched = {}
     /\ \A oid \in Ids(urlCollection) \cap Ids(urlCollection') :
          /\ ById(urlCollection', oid).createdAt = ById(urlCollection, oid).createdAt
          /\ ById(urlCollection', oid).clicks >= ById(urlCollection, oid).clicks
    ]_vars

\* An update has just answered 200 for a code two records hold, and it has left
\* the second of them with another url than the first.
C10_Witness ==
  /\ last.op = "update" /\ last.status = 200
  /\ \E i, j \in Holders(urlCollection, last.shortCode) :
       i < j /\ urlCollection[i].url # urlCollection[j].url

\* C2 as claimed: after k sequential redirects of a freshly created code, a
\* stats lookup for it reports clicks = k.
C2_FreshCodeCountsRedirects ==
  \A shortCode \in Codes :
    fresh[shortCode] >= 0 =>
      /\ GetStats(urlCollection, shortCode).status = 200
      /\ GetStats(urlCollection, shortCode).body.clicks = fresh[shortCode]

\* C3 as claimed: once a delete request for a code has answered 200, a stats
\* request for the code answers 404.
C3_DeletedCodeIs404 ==
  [][\A shortCode \in Codes :
       (/\ last'.op = "delete" /\ last'.shortCode = shortCode
        /\ Delete(shortCode)
        /\ DeleteShortCode(urlCollection, shortCode).status = 200) =>
         GetStats(urlCollection', shortCode).status = 404
    ]_vars

\* C8 as claimed: a redirect request whose lookup found a record and which
\* answers with the redirect has added exactly 1 to the clicks of the record
\* it looked up, whatever ran between its lookup and its increment.
C8_RedirectIncrementsItsRecord ==
  [][\A p \in BagToSet(inflight) :
       (last'.op = "redirect" /\ RedirectIncrement(p)) =>
         /\ GetShortCodeFinish(urlCollection, p.shortCode, p.mapping).status = 302
         /\ \E i \in 1 .. Len(urlCollection) :
              /\ urlCollection[i]._id = p.mapping._id
              /\ urlCollection' =
                   [urlCollection EXCEPT ![i].clicks = urlCollection[i].clicks + 1]
    ]_vars

====
